---- MODULE Spec2Model ----
(***************************************************************************)
(* Model of libigc's Flight engine (src/libigc/core.py): reading the file  *)
(* in Flight.create_from_file, the passes that Flight.__init__ runs over   *)
(* the fix list, GNSSFix parsing and emitting B records, Thermal and Glide,*)
(* and of Task.check_flight (src/libigc/task.py).  An exception that ends *)
(* a call is the value of raised.                                          *)
(*                                                                         *)
(* Times are whole seconds (a B record carries HHMMSS), altitudes whole    *)
(* metres, distances whole metres.  A comparison against a tolerance of    *)
(* 1e-5 is written on both sides multiplied by E5.  A fix is named by its  *)
(* position 1..Len(fixes) in Flight.fixes; None (0) stands for Python's    *)
(* None.  The attribute fix.index is the zero-based field of the record.   *)
(* Lines and records are strings, read by position.                        *)
(***************************************************************************)
EXTENDS Integers, Sequences, FiniteSets, TLC

\* ---------------------------------------------------------------- bounds
MaxFixes == 3
MaxFixesLong == 5
MaxFixesTime == 4
MaxLines == 3
MaxFixesBearing == 4
MaxFixesTask == 3
SmallMinFixes == 2
SmallMaxTimeViolations == 1
SmallMaxNewDays == 1

\* ------------------------------------------------- FlightParsingConfig
min_fixes == 50
max_seconds_between_fixes == 50
min_seconds_between_fixes == 1
max_time_violations == 10
max_new_days_in_flight == 2
\* min_avg_abs_alt_change is 0.01, kept as its reciprocal
min_avg_abs_alt_change_inv == 100
max_alt_change_rate == 50
max_alt_change_violations == 3
max_alt == 10000
min_alt == -600
min_gsp_flight == 15
min_landing_time == 300
min_bearing_change_circling == 6
min_time_for_bearing_change == 5
min_time_for_thermal == 60

FlightParsingConfig ==
  [ min_fixes |-> min_fixes,
    max_seconds_between_fixes |-> max_seconds_between_fixes,
    min_seconds_between_fixes |-> min_seconds_between_fixes,
    max_time_violations |-> max_time_violations,
    max_new_days_in_flight |-> max_new_days_in_flight,
    min_avg_abs_alt_change_inv |-> min_avg_abs_alt_change_inv,
    max_alt_change_rate |-> max_alt_change_rate,
    max_alt_change_violations |-> max_alt_change_violations,
    max_alt |-> max_alt,
    min_alt |-> min_alt,
    min_gsp_flight |-> min_gsp_flight,
    min_landing_time |-> min_landing_time,
    which_flight_to_pick |-> "concat",
    min_bearing_change_circling |-> min_bearing_change_circling,
    min_time_for_bearing_change |-> min_time_for_bearing_change,
    min_time_for_thermal |-> min_time_for_thermal ]

\* Subclasses of FlightParsingConfig (create_from_file takes config_class)
\* that let a log of a few fixes through the validation.
SegConfigs ==
  { [FlightParsingConfig EXCEPT !.min_fixes = SmallMinFixes,
                                !.which_flight_to_pick = w] :
      w \in {"concat", "first"} }

FileConfig == [FlightParsingConfig EXCEPT !.min_fixes = SmallMinFixes]

\* Subclasses that let a log of one fix or of none through the first test
FewConfigs == { [FlightParsingConfig EXCEPT !.min_fixes = m] : m \in {0, 1} }

TimeConfig ==
  [FlightParsingConfig EXCEPT !.min_fixes = SmallMinFixes,
                              !.max_time_violations = SmallMaxTimeViolations,
                              !.max_new_days_in_flight = SmallMaxNewDays]

\* ---------------------------------------------------------------- basics
None == 0
E5 == 100000
E7 == 10000000
DAY == 86400
MIDNIGHT_SLACK == 200

Abs(x) == IF x < 0 THEN -x ELSE x

\* x > y + 1e-5, that is x - 1e-5 > y, for x and y in whole seconds; the
\* scaled difference is formed only where it is small
exceeds(x, y) == x - y >= 1 \/ (x - y > -1 /\ (x - y) * E5 > 1)

\* for i in lo..hi: st = step(st, i).  The range is split in halves, and
\* the first half is evaluated (half = half) before the second starts, so
\* that a long log does not nest one evaluation per fix.
RECURSIVE Iterate(_, _, _, _)
Iterate(step(_, _), lo, hi, st) ==
  IF lo > hi THEN st
  ELSE IF lo = hi THEN step(st, lo)
  ELSE LET mid == (lo + hi) \div 2
           half == Iterate(step, lo, mid, st)
       IN IF half = half THEN Iterate(step, mid + 1, hi, half) ELSE st

VARIABLES
  lines,           \* the lines of the IGC file, as file iteration yields them
  b_records,       \* what to_B_record returns for every fix of the Flight
  cfg,             \* Flight._config
  fixes,           \* Flight.fixes: raw attributes of every GNSSFix
  h_records,       \* the H records handed to the constructor
  flying_outputs,  \* what the flying decoder returns for this log
  circling_outputs,\* what the circling decoder returns for this log
  bearing_outputs, \* what geo.bearing_to returns from fix i to fix i + 1
  bearing,         \* per fix, degrees
  bearing_change_rate, \* per fix, degrees over seconds as a fraction
  pc,              \* position inside Flight.__init__
  valid, notes,
  attrs,           \* names of the attributes assigned so far (hasattr)
  press_alt_valid, gnss_alt_valid, alt_source,
  days_added, date_timestamp,
  alt, timestamp,  \* per fix, set by GNSSFix.set_flight
  flying, circling,\* per fix labels
  takeoff_fix, landing_fix,
  thermals, glides,
  task,            \* the Task handed to check_flight
  reached_turnpoints, \* what Task.check_flight returned: fix positions
  raised           \* the exception that ended the call, "" if none

vars == <<bearing_outputs, bearing, bearing_change_rate, lines, b_records, cfg, fixes, h_records, flying_outputs, circling_outputs, pc,
          valid, notes, attrs, press_alt_valid, gnss_alt_valid, alt_source,
          days_added, date_timestamp, alt, timestamp, flying, circling,
          takeoff_fix, landing_fix, thermals, glides,
          task, reached_turnpoints, raised>>

\* ------------------------------------------------------------ geo (lib)
\* Great-circle distance, here in metres between points of one great
\* circle (the track runs along the equator or a meridian).
earth_distance(lat1, lon1, lat2, lon2) == Abs(lat1 - lat2) + Abs(lon1 - lon2)

\* GNSSFix.distance_to
distance_to(f, g) == earth_distance(f.lat, f.lon, g.lat, g.lon)

\* ------------------------------------------------------ _check_altitudes
check_altitudes_step(fx, c, st, i) ==
  LET press_alt_delta == Abs(fx[i+1].press_alt - fx[i].press_alt)
      gnss_alt_delta == Abs(fx[i+1].gnss_alt - fx[i].gnss_alt)
      rawtime_delta == Abs(fx[i+1].rawtime - fx[i].rawtime)
      timed == 2 * rawtime_delta > 1
      press_huge == timed /\ press_alt_delta > c.max_alt_change_rate * rawtime_delta
      gnss_huge == timed /\ gnss_alt_delta > c.max_alt_change_rate * rawtime_delta
      press_out == fx[i].press_alt > c.max_alt \/ fx[i].press_alt < c.min_alt
      gnss_out == fx[i].gnss_alt > c.max_alt \/ fx[i].gnss_alt < c.min_alt
  IN [ press_huge_changes_num |-> st.press_huge_changes_num + (IF press_huge THEN 1 ELSE 0),
       gnss_huge_changes_num |-> st.gnss_huge_changes_num + (IF gnss_huge THEN 1 ELSE 0),
       press_chgs_sum |-> st.press_chgs_sum + (IF timed /\ ~press_huge THEN press_alt_delta ELSE 0),
       gnss_chgs_sum |-> st.gnss_chgs_sum + (IF timed /\ ~gnss_huge THEN gnss_alt_delta ELSE 0),
       press_alt_violations_num |-> st.press_alt_violations_num + (IF press_out THEN 1 ELSE 0),
       gnss_alt_violations_num |-> st.gnss_alt_violations_num + (IF gnss_out THEN 1 ELSE 0) ]

\* chgs_sum / float(len(self.fixes) - 1) < min_avg_abs_alt_change, for a
\* divisor other than zero: a negative divisor turns the comparison round
chgs_avg_too_low(chgs_sum, n, c) ==
  IF n - 1 > 0 THEN chgs_sum * c.min_avg_abs_alt_change_inv < n - 1
  ELSE chgs_sum * c.min_avg_abs_alt_change_inv > n - 1

\* sensor_notes with every note raised from a warning to an error
sensor_notes_as_errors(name, chgs_sum, huge_changes_num, violations_num, n, c) ==
  IF n - 1 = 0 THEN [ raised |-> "ZeroDivisionError", notes |-> << >> ]
  ELSE [ raised |-> "",
         notes |->
           (IF chgs_avg_too_low(chgs_sum, n, c)
              THEN << "Error: average " \o name \o " altitude change too low" >> ELSE << >>)
           \o (IF huge_changes_num > c.max_alt_change_violations
              THEN << "Error: too many high changes in " \o name \o " altitude" >> ELSE << >>)
           \o (IF violations_num > 0
              THEN << "Error: " \o name \o " altitude limits exceeded" >> ELSE << >>) ]

\* the average of one sensor and the notes it gets, in the order the code
\* appends them; with a single fix the division by len(self.fixes) - 1
\* raises ZeroDivisionError
sensor_notes(name, chgs_sum, huge_changes_num, violations_num, n, c) ==
  IF n - 1 = 0 THEN [ raised |-> "ZeroDivisionError", notes |-> << >> ]
  ELSE [ raised |-> "",
         notes |->
           (IF chgs_avg_too_low(chgs_sum, n, c)
              THEN << "Warning: average " \o name \o " altitude change too low" >> ELSE << >>)
           \o (IF huge_changes_num > c.max_alt_change_violations
              THEN << "Warning: too many high changes in " \o name \o " altitude" >> ELSE << >>)
           \o (IF violations_num > 0
              THEN << "Warning: " \o name \o " altitude limits exceeded" >> ELSE << >>) ]

\* raised is the exception of the division, before any note is appended
check_altitudes(fx, c) ==
  LET step(acc, i) == check_altitudes_step(fx, c, acc, i)
      st == Iterate(step, 1, Len(fx) - 1,
              [ press_huge_changes_num |-> 0, gnss_huge_changes_num |-> 0,
                press_chgs_sum |-> 0, gnss_chgs_sum |-> 0,
                press_alt_violations_num |-> 0, gnss_alt_violations_num |-> 0 ])
      press == sensor_notes("pressure", st.press_chgs_sum,
                  st.press_huge_changes_num, st.press_alt_violations_num, Len(fx), c)
      gnss == sensor_notes("gnss", st.gnss_chgs_sum,
                  st.gnss_huge_changes_num, st.gnss_alt_violations_num, Len(fx), c)
  IN [ raised |-> press.raised,
       notes |-> press.notes \o gnss.notes,
       press_alt_valid |-> press.notes = << >>,
       gnss_alt_valid |-> gnss.notes = << >> ]

\* ---------------------------------------------------- _check_fix_rawtime
\* is_day_switch without the test against the 200 s slack
is_day_switch_any_backward(f0_rawtime, f1_rawtime) == f0_rawtime > f1_rawtime

is_day_switch(f0_rawtime, f1_rawtime) ==
  f0_rawtime > f1_rawtime /\ f1_rawtime + DAY < f0_rawtime + MIDNIGHT_SLACK

\* time_violations without the test against min_seconds_between_fixes
time_violations_max_only(time_change, c) ==
  IF exceeds(time_change, c.max_seconds_between_fixes) THEN 1 ELSE 0

\* how many times one interval is counted as a violation
time_violations(time_change, c) ==
  (IF exceeds(c.min_seconds_between_fixes, time_change) THEN 1 ELSE 0)
  + (IF exceeds(time_change, c.max_seconds_between_fixes) THEN 1 ELSE 0)

\* over_limit that already fires at the limit
over_limit_reached(count, limit) == count >= limit

\* lines 367 and 374: a count is fatal when it is above its limit
over_limit(count, limit) == count > limit

check_fix_rawtime_step(c, st, i) ==
  LET f0 == st.fixes[i-1]
      shifted == st.fixes[i].rawtime + st.rawtime_to_add
      switch == is_day_switch(f0.rawtime, shifted)
      f1_rawtime == IF switch THEN shifted + DAY ELSE shifted
      time_change == f1_rawtime - f0.rawtime
  IN [ fixes |-> [st.fixes EXCEPT ![i].rawtime = f1_rawtime],
       days_added |-> st.days_added + (IF switch THEN 1 ELSE 0),
       rawtime_to_add |-> st.rawtime_to_add + (IF switch THEN DAY ELSE 0),
       rawtime_between_fix_exceeded |->
         st.rawtime_between_fix_exceeded + time_violations(time_change, c) ]

check_fix_rawtime(fx, c) ==
  LET step(acc, i) == check_fix_rawtime_step(c, acc, i)
      st == Iterate(step, 2, Len(fx),
              [ fixes |-> fx, days_added |-> 0, rawtime_to_add |-> 0,
                rawtime_between_fix_exceeded |-> 0 ])
      too_many_violations ==
        over_limit(st.rawtime_between_fix_exceeded, c.max_time_violations)
      too_many_days == over_limit(st.days_added, c.max_new_days_in_flight)
  IN [ fixes |-> st.fixes,
       days_added |-> st.days_added,
       rawtime_between_fix_exceeded |-> st.rawtime_between_fix_exceeded,
       notes |-> (IF too_many_violations
                    THEN << "Error: too many fixes intervals exceed time between fixes constraints" >>
                    ELSE << >>)
                 \o (IF too_many_days
                    THEN << "Error: too many times did the flight cross the UTC 0:00 barrier" >>
                    ELSE << >>),
       valid |-> ~too_many_violations /\ ~too_many_days ]

\* ------------------------------------------------------- _parse_h_record
\* days from 1970-01-01 to the civil date y-m-d (datetime subtraction)
days_from_epoch(y, m, d) ==
  LET yy == IF m <= 2 THEN y - 1 ELSE y
      era == yy \div 400
      yoe == yy - era * 400
      mp == IF m > 2 THEN m - 3 ELSE m + 9
      doy == (153 * mp + 2) \div 5 + d - 1
      doe == yoe * 365 + yoe \div 4 - yoe \div 100 + doy
  IN era * 146097 + doe - 719468

\* ---------------------------------------------------- characters, numbers
Digits == {"0", "1", "2", "3", "4", "5", "6", "7", "8", "9"}
Letters ==
  {"a", "b", "c", "d", "e", "f", "g", "h", "i", "j", "k", "l", "m",
   "n", "o", "p", "q", "r", "s", "t", "u", "v", "w", "x", "y", "z",
   "A", "B", "C", "D", "E", "F", "G", "H", "I", "J", "K", "L", "M",
   "N", "O", "P", "Q", "R", "S", "T", "U", "V", "W", "X", "Y", "Z"}

\* the character at position i of s, "" past its end
Ch(s, i) == IF i <= Len(s) THEN SubSeq(s, i, i) ELSE ""
\* s[lo-1:hi], a Python slice in one-based positions
Slice(s, lo, hi) ==
  IF lo > Len(s) THEN "" ELSE SubSeq(s, lo, IF hi > Len(s) THEN Len(s) ELSE hi)
From(s, i) == Slice(s, i, Len(s))
AllDigits(s, lo, hi) == \A i \in lo..hi : Ch(s, i) \in Digits

digit(ch) ==
  CASE ch = "0" -> 0 [] ch = "1" -> 1 [] ch = "2" -> 2 [] ch = "3" -> 3
    [] ch = "4" -> 4 [] ch = "5" -> 5 [] ch = "6" -> 6 [] ch = "7" -> 7
    [] ch = "8" -> 8 [] ch = "9" -> 9

\* int() and float() of a string of decimal digits with an optional "-"
RECURSIVE int(_)
int(s) ==
  IF s = "" THEN 0
  ELSE IF Ch(s, 1) = "-" THEN -int(From(s, 2))
  ELSE int(Slice(s, 1, Len(s) - 1)) * 10 + digit(Ch(s, Len(s)))

\* the date_timestamp one H record assigns, if it assigns one
\* (re.match of (?:HFDTE|HFDTEDATE:[ ]*)(\d\d)(\d\d)(\d\d), ignoring case)
RECURSIVE skip_spaces(_, _)
skip_spaces(s, i) == IF Ch(s, i) = " " THEN skip_spaces(s, i + 1) ELSE i

\* the days of month m of year y in 2000..2099, as datetime counts them
days_in_month(y, m) ==
  IF m = 2 THEN (IF y % 4 = 0 THEN 29 ELSE 28)
  ELSE IF m \in {4, 6, 9, 11} THEN 30
  ELSE 31

hfdte_match(record) ==
  IF AllDigits(record, 6, 11) THEN 6
  ELSE IF /\ Ch(record, 6) \in {"D", "d"} /\ Ch(record, 7) \in {"A", "a"}
          /\ Ch(record, 8) \in {"T", "t"} /\ Ch(record, 9) \in {"E", "e"}
          /\ Ch(record, 10) = ":"
          /\ AllDigits(record, skip_spaces(record, 11), skip_spaces(record, 11) + 5)
         THEN skip_spaces(record, 11)
  ELSE None

parse_h_record(record) ==
  LET at == IF Slice(record, 1, 5) = "HFDTE" THEN hfdte_match(record) ELSE None
      year == 2000 + int(SubSeq(record, at + 4, at + 5))
      month == int(SubSeq(record, at + 2, at + 3))
      day == int(SubSeq(record, at, at + 1))
  IN IF at # None /\ 1 <= month /\ month <= 12 /\ 1 <= day /\ day <= 31
       THEN IF day > days_in_month(year, month)
              THEN [set |-> FALSE, date_timestamp |-> 0, raised |-> "ValueError"]
              ELSE [set |-> TRUE, raised |-> "",
                    date_timestamp |-> days_from_epoch(year, month, day) * DAY]
       ELSE [set |-> FALSE, date_timestamp |-> 0, raised |-> ""]

RECURSIVE parse_h_records(_, _, _)
parse_h_records(records, i, acc) ==
  IF i > Len(records) THEN acc
  ELSE LET r == parse_h_record(records[i])
       IN IF r.raised # "" THEN r
          ELSE parse_h_records(records, i + 1, IF r.set THEN r ELSE acc)


\* ------------------------------------------- GNSSFix.build_from_B_record
\* lat and lon of a fix hold degrees * 60000, thousandths of a minute of
\* arc: the integer that to_B_record recovers with round(lat * 60000.0).
ExtrasChars == Digits \cup Letters \cup {"-"}

\* where the group ([0-9a-zA-Z\-]*) ends: the last position of the longest
\* run of such characters that starts at position 36
RECURSIVE extras_end(_, _)
extras_end(line, i) ==
  IF Ch(line, i + 1) \in ExtrasChars THEN extras_end(line, i + 1) ELSE i

\* .*$ : no newline in the rest, but for one that ends the line
rest_matches(line, i) ==
  \A k \in i..Len(line) : Ch(line, k) = "\n" => k = Len(line)

B_record_match(line) ==
  /\ Len(line) >= 35
  /\ Ch(line, 1) = "B"
  /\ AllDigits(line, 2, 7)
  /\ AllDigits(line, 8, 14) /\ Ch(line, 15) \in {"N", "S"}
  /\ AllDigits(line, 16, 23) /\ Ch(line, 24) \in {"E", "W"}
  /\ Ch(line, 25) \in {"A", "V"}
  /\ Ch(line, 26) \in Digits \cup {"-"} /\ AllDigits(line, 27, 30)
  /\ Ch(line, 31) \in Digits \cup {"-"} /\ AllDigits(line, 32, 35)
  /\ rest_matches(line, extras_end(line, 35) + 1)

\* extras reaching to the end of the line whatever its characters
extras_whole_rest(line) == From(line, 36)

extras_group(line) == Slice(line, 36, extras_end(line, 35))

\* the fix of a matching line
build_from_B_record(B_record_line, index) ==
  LET hours == int(Slice(B_record_line, 2, 3))
      minutes == int(Slice(B_record_line, 4, 5))
      seconds == int(Slice(B_record_line, 6, 7))
      lat == int(Slice(B_record_line, 8, 9)) * 60000
               + int(Slice(B_record_line, 10, 11)) * 1000
               + int(Slice(B_record_line, 12, 14))
      lon == int(Slice(B_record_line, 16, 18)) * 60000
               + int(Slice(B_record_line, 19, 20)) * 1000
               + int(Slice(B_record_line, 21, 23))
  IN [ rawtime |-> (hours * 60 + minutes) * 60 + seconds,
       lat |-> IF Ch(B_record_line, 15) = "S" THEN -lat ELSE lat,
       lon |-> IF Ch(B_record_line, 24) = "W" THEN -lon ELSE lon,
       validity |-> Ch(B_record_line, 25),
       press_alt |-> int(Slice(B_record_line, 26, 30)),
       gnss_alt |-> int(Slice(B_record_line, 31, 35)),
       index |-> index,
       extras |-> extras_group(B_record_line) ]

\* ------------------------------------------------- GNSSFix.to_B_record
\* the decimal digits of x >= 0
RECURSIVE decimal(_)
decimal(x) ==
  LET last == CHOOSE ch \in Digits : digit(ch) = x % 10
  IN IF x < 10 THEN last ELSE decimal(x \div 10) \o last

RECURSIVE zeros(_)
zeros(n) == IF n <= 0 THEN "" ELSE "0" \o zeros(n - 1)

\* "%d" % x: no padding to a width
format_d_unpadded(width, x) == (IF x < 0 THEN "-" ELSE "") \o decimal(Abs(x))

\* "%0<width>d" % x: the sign, then zeros up to the width, then the digits
format_d(width, x) ==
  LET sign == IF x < 0 THEN "-" ELSE ""
      body == decimal(Abs(x))
  IN sign \o zeros(width - Len(sign) - Len(body)) \o body

to_B_record(fix) ==
  LET rawtime == fix.rawtime
      hours == rawtime \div 3600
      minutes == (rawtime % 3600) \div 60
      seconds == rawtime % 60
      lat == Abs(fix.lat)
      lat_sign == IF fix.lat < 0 THEN "S" ELSE "N"
      lon == Abs(fix.lon)
      lon_sign == IF fix.lon < 0 THEN "W" ELSE "E"
  IN "B"
     \o format_d(2, hours) \o format_d(2, minutes) \o format_d(2, seconds)
     \o format_d(2, lat \div 60000) \o format_d(2, (lat % 60000) \div 1000)
     \o format_d(3, lat % 1000) \o lat_sign
     \o format_d(3, lon \div 60000) \o format_d(2, (lon % 60000) \div 1000)
     \o format_d(3, lon % 1000) \o lon_sign
     \o fix.validity
     \o format_d(5, fix.press_alt) \o format_d(5, fix.gnss_alt)
     \o fix.extras

\* ------------------------------------------------ Flight.create_from_file
\* str.replace(old, "") for a pattern of two characters
RECURSIVE replace(_, _)
replace(s, old) ==
  IF Len(s) < 2 THEN s
  ELSE IF Slice(s, 1, 2) = old THEN replace(From(s, 3), old)
  ELSE Ch(s, 1) \o replace(From(s, 2), old)

\* the test of line 82 that never finds two fixes at the same time
same_rawtime_never(rawtime, last_rawtime) == FALSE

\* line 82: math.fabs(fix.rawtime - fixes[-1].rawtime) < 1e-5
same_rawtime(rawtime, last_rawtime) ==
  Abs(rawtime - last_rawtime) < 1 /\ Abs(rawtime - last_rawtime) * E5 < 1

\* one turn of the loop over the lines; A and I records are not modelled
\* the index handed to build_from_B_record counted from one
next_index_from_one(kept) == Len(kept) + 1

\* index=len(fixes)
next_index(kept) == Len(kept)

create_from_file_step(st, raw_line) ==
  LET line == replace(replace(raw_line, "\\n"), "\\r")
      fix == build_from_B_record(line, next_index(st.fixes))
  IN IF line = "" THEN st
     ELSE IF Ch(line, 1) = "B" THEN
       IF ~B_record_match(line) THEN st
       ELSE IF st.fixes # << >>
                 /\ same_rawtime(fix.rawtime, st.fixes[Len(st.fixes)].rawtime)
         THEN st
       ELSE [st EXCEPT !.fixes = Append(st.fixes, fix)]
     ELSE IF Ch(line, 1) = "H" THEN
       [st EXCEPT !.h_records = Append(st.h_records, line)]
     ELSE st

create_from_file(file) ==
  LET step(acc, i) == create_from_file_step(acc, file[i])
  IN Iterate(step, 1, Len(file), [ fixes |-> << >>, h_records |-> << >> ])

\* ---------------------------------------------------- GNSSFix.set_flight
\* set_flight_alt reading the pressure sensor whatever the source
set_flight_alt_press(f, source) == f.press_alt

set_flight_alt(f, source) == IF source = "PRESS" THEN f.press_alt ELSE f.gnss_alt

set_flight_timestamp(f, date_ts) == f.rawtime + date_ts

\* ------------------------------ _compute_ground_speeds, _flying_emissions
\* gsp is dist / rawtime * 3600 km/h with dist in km; the emission compares
\* it with min_gsp_flight, here cross-multiplied (dist in metres).
flying_emission(fx, i, c) ==
  IF i = 1 THEN 0
  ELSE LET dist == distance_to(fx[i], fx[i-1])
           rawtime == fx[i].rawtime - fx[i-1].rawtime
       IN IF Abs(rawtime) < 1 /\ Abs(rawtime) * E5 < 1 THEN 0
          ELSE IF rawtime > 0 /\ dist * 3600 > c.min_gsp_flight * 1000 * rawtime
                 THEN 1 ELSE 0

flying_emissions(fx, c) == [ i \in 1..Len(fx) |-> flying_emission(fx, i, c) ]

\* -------------------------------------------------------- _compute_flight
\* position of the first fix at or after j that the decoder said is
\* flying, Len(outputs) + 1 if there is none (the while loop of line 454)
scan_upcoming(outputs, j) ==
  LET upcoming == { k \in j..Len(outputs) : outputs[k] = 1 }
  IN IF upcoming = {} THEN Len(outputs) + 1
     ELSE CHOOSE k \in upcoming : \A m \in upcoming : k <= m

\* downtime_is_landing with > in place of >=
downtime_is_landing_strict(upcoming_fix_time_ahead, c) ==
  upcoming_fix_time_ahead > c.min_landing_time

downtime_is_landing(upcoming_fix_time_ahead, c) ==
  upcoming_fix_time_ahead >= c.min_landing_time

compute_flight_step(fx, outputs, c, st, i) ==
  IF outputs[i] = 1
    THEN [ ignore_next_downtime |-> FALSE, apply_next_downtime |-> FALSE,
           flying |-> Append(st.flying, TRUE) ]
  ELSE IF st.apply_next_downtime \/ st.ignore_next_downtime
    THEN [ st EXCEPT !.flying = Append(@, ~st.apply_next_downtime) ]
  ELSE
    LET j == scan_upcoming(outputs, i + 1) IN
    IF j = Len(fx) + 1
      THEN [ st EXCEPT !.apply_next_downtime = TRUE, !.flying = Append(@, FALSE) ]
    ELSE IF downtime_is_landing(fx[j].rawtime - fx[i].rawtime, c)
      THEN [ st EXCEPT !.apply_next_downtime = TRUE, !.flying = Append(@, FALSE) ]
    ELSE [ st EXCEPT !.ignore_next_downtime = TRUE, !.flying = Append(@, TRUE) ]

compute_flight(fx, outputs, c) ==
  LET step(acc, i) == compute_flight_step(fx, outputs, c, acc, i)
      st == Iterate(step, 1, Len(fx),
              [ ignore_next_downtime |-> FALSE, apply_next_downtime |-> FALSE,
                flying |-> << >> ])
  IN st.flying

\* ----------------------------------------------- _compute_takeoff_landing
\* takeoff_landing_step without the break of the first flight
takeoff_landing_step_no_break(fl, c, st, i) ==
  [ takeoff_fix |-> IF fl[i] /\ st.takeoff_fix = None THEN i ELSE st.takeoff_fix,
    landing_fix |-> IF ~fl[i] /\ st.was_flying THEN i ELSE st.landing_fix,
    was_flying |-> fl[i], broken |-> FALSE ]

\* one iteration of the for loop; broken is set by the break of line 494
takeoff_landing_step(fl, c, st, i) ==
  IF st.broken THEN st
  ELSE
    LET takeoff == IF fl[i] /\ st.takeoff_fix = None THEN i ELSE st.takeoff_fix
        landed == ~fl[i] /\ st.was_flying
        landing == IF landed THEN i ELSE st.landing_fix
    IN IF landed /\ c.which_flight_to_pick = "first"
         THEN [ st EXCEPT !.takeoff_fix = takeoff, !.landing_fix = landing,
                          !.broken = TRUE ]
         ELSE [ takeoff_fix |-> takeoff, landing_fix |-> landing,
                was_flying |-> fl[i], broken |-> FALSE ]

\* compute_takeoff_landing falling back to the first and last fix of the
\* log when no fix is flying
compute_takeoff_landing_fallback(fl, c) ==
  LET step(acc, i) == takeoff_landing_step(fl, c, acc, i)
      st == Iterate(step, 1, Len(fl),
              [ takeoff_fix |-> None, landing_fix |-> None,
                was_flying |-> FALSE, broken |-> FALSE ])
  IN [ takeoff_fix |-> IF st.takeoff_fix = None THEN 1 ELSE st.takeoff_fix,
       landing_fix |-> IF st.landing_fix = None THEN Len(fl) ELSE st.landing_fix ]

\* the pair the method assigns; takeoff_fix = None when it assigns nothing
compute_takeoff_landing(fl, c) ==
  LET step(acc, i) == takeoff_landing_step(fl, c, acc, i)
      st == Iterate(step, 1, Len(fl),
              [ takeoff_fix |-> None, landing_fix |-> None,
                was_flying |-> FALSE, broken |-> FALSE ])
  IN IF st.takeoff_fix = None
       THEN [ takeoff_fix |-> None, landing_fix |-> None ]
       ELSE [ takeoff_fix |-> st.takeoff_fix,
              landing_fix |-> IF st.landing_fix = None THEN Len(fl) ELSE st.landing_fix ]

\* ------------------------------------------------------ _compute_circling
compute_circling(output) == [ i \in 1..Len(output) |-> output[i] = 1 ]

\* --------------------------------------------------------- Thermal, Glide
Thermal(enter_fix, exit_fix) == [ enter_fix |-> enter_fix, exit_fix |-> exit_fix ]

Glide(enter_fix, exit_fix, track_length) ==
  [ enter_fix |-> enter_fix, exit_fix |-> exit_fix, track_length |-> track_length ]

\* Thermal.time_change
thermal_time_change(fx, thermal) ==
  fx[thermal.exit_fix].rawtime - fx[thermal.enter_fix].rawtime

\* Glide.time_change
glide_time_change(ts, glide) == ts[glide.exit_fix] - ts[glide.enter_fix]

\* ------------------------------------------------------ _compute_bearings
\* outputs[i] is bearing_to from fix i to fix i + 1; the last fix copies
\* the bearing of the one before it
compute_bearings(outputs, n) ==
  [ i \in 1..n |-> IF i < n THEN outputs[i] ELSE outputs[n - 1] ]

\* ------------------------------------------ _compute_bearing_change_rates
\* x > y - 1e-7 for x and y in whole seconds
reaches(x, y) == x >= y \/ (x > y - 1 /\ (y - x) * E7 < 1)

\* the loop of find_prev_fix from position i downwards; positions are
\* one-based, so range(curr_fix - 1, 0, -1) ends at position 2
RECURSIVE find_prev_fix_from(_, _, _, _)
find_prev_fix_from(ts, curr_fix, i, c) ==
  IF i < 2 THEN None
  ELSE IF reaches(Abs(ts[curr_fix] - ts[i]), c.min_time_for_bearing_change) THEN i
  ELSE find_prev_fix_from(ts, curr_fix, i - 1, c)

find_prev_fix(ts, curr_fix, c) == find_prev_fix_from(ts, curr_fix, curr_fix - 1, c)

\* normalize_bearing_change that returns its argument
normalize_bearing_change_identity(change) == change

RECURSIVE normalize_bearing_change(_)
normalize_bearing_change(change) ==
  IF change > 180 THEN normalize_bearing_change(change - 360)
  ELSE IF change < -180 THEN normalize_bearing_change(change + 360)
  ELSE change

\* the rate of one fix, bearing_change / time_change kept as a fraction
bearing_change_rate_of(brg, ts, curr_fix, c) ==
  LET prev_fix == find_prev_fix(ts, curr_fix, c)
      bearing_change == normalize_bearing_change(brg[curr_fix] - brg[prev_fix])
      time_change == ts[curr_fix] - ts[prev_fix]
  IN IF prev_fix = None THEN [ num |-> 0, den |-> 1 ]
     ELSE IF Abs(time_change) < 1 /\ Abs(time_change) * E7 < 1
       THEN [ num |-> 0, den |-> 1 ]
     ELSE [ num |-> bearing_change, den |-> time_change ]

compute_bearing_change_rates(brg, ts, c) ==
  [ i \in 1..Len(brg) |-> bearing_change_rate_of(brg, ts, i, c) ]

\* --------------------------------------------------------- _find_thermals
\* thermal_accepted without the minimum duration
thermal_accepted_any(time_change, c) == TRUE

thermal_accepted(time_change, c) ==
  ~exceeds(c.min_time_for_thermal, time_change)

\* glide_at_thermal ending the glide at the last fix seen, not at the
\* entry of the thermal
glide_at_thermal_last_fix(st) ==
  Glide(st.first_glide_fix, st.last_glide_fix, st.distance_start_circling)

\* the glide closed when a thermal is accepted
glide_at_thermal(st) ==
  Glide(st.first_glide_fix, st.first_fix, st.distance_start_circling)

\* open_glide that keeps the start of the previous glide
open_glide_keep_first(st, p) ==
  [ st EXCEPT !.first_glide_fix = IF @ = None THEN p ELSE @,
              !.last_glide_fix = p, !.gliding_now = TRUE, !.distance = 0 ]

\* the bookkeeping of a fix that opens a glide
open_glide(st, p) ==
  [ st EXCEPT !.first_glide_fix = p, !.last_glide_fix = p,
              !.gliding_now = TRUE, !.distance = 0 ]

\* the glide closed after the loop
final_glide(st) == Glide(st.first_glide_fix, st.last_glide_fix, st.distance)

find_thermals_step(fx, circ, c, st, p) ==
  LET s1 ==
        IF ~st.circling_now /\ circ[p]
          THEN [ st EXCEPT !.circling_now = TRUE, !.first_fix = p,
                           !.distance_start_circling = st.distance ]
        ELSE IF st.circling_now /\ ~circ[p]
          THEN LET thermal == Thermal(st.first_fix, p) IN
               IF thermal_accepted(thermal_time_change(fx, thermal), c)
                 THEN [ st EXCEPT !.circling_now = FALSE,
                                  !.thermals = Append(@, thermal),
                                  !.glides = Append(@, glide_at_thermal(st)),
                                  !.gliding_now = FALSE ]
                 ELSE [ st EXCEPT !.circling_now = FALSE ]
        ELSE st
  IN IF s1.gliding_now
       THEN [ s1 EXCEPT !.distance = @ + distance_to(fx[p], fx[s1.last_glide_fix]),
                        !.last_glide_fix = p ]
       ELSE open_glide(s1, p)

\* flight_fixes = fixes[takeoff_index : landing_index + 1], as positions
flight_fixes_first(fx, takeoff) == fx[takeoff].index + 1
flight_fixes_last(fx, landing) ==
  IF fx[landing].index + 1 > Len(fx) THEN Len(fx) ELSE fx[landing].index + 1

find_thermals(fx, circ, c, takeoff, landing) ==
  LET step(acc, p) == find_thermals_step(fx, circ, c, acc, p)
      st == Iterate(step, flight_fixes_first(fx, takeoff),
              flight_fixes_last(fx, landing),
              [ circling_now |-> FALSE, gliding_now |-> FALSE,
                first_fix |-> None, first_glide_fix |-> None,
                last_glide_fix |-> None, distance |-> 0,
                distance_start_circling |-> 0,
                thermals |-> << >>, glides |-> << >> ])
  IN [ thermals |-> st.thermals,
       glides |-> IF st.gliding_now THEN Append(st.glides, final_glide(st))
                  ELSE st.glides ]


\* ---------------------------------------------------------------- task.py
\* the kinds Turnpoint.__init__ accepts
TurnpointKinds ==
  {"start_exit", "start_enter", "cylinder", "End_of_speed_section",
   "goal_cylinder", "goal_line"}

\* Turnpoint.__init__
Turnpoint(lat, lon, radius, kind) ==
  [ lat |-> lat, lon |-> lon, radius |-> radius, kind |-> kind ]

\* Turnpoint.in_radius
in_radius(tp, fix) == earth_distance(tp.lat, tp.lon, fix.lat, fix.lon) < tp.radius

\* Task.__init__
Task(turnpoints, start_time, end_time) ==
  [ turnpoints |-> turnpoints, start_time |-> start_time, end_time |-> end_time ]

\* the start gate taken as open at start_time itself
after_start_time_or_at(fix, tk) == fix.rawtime >= tk.start_time

\* fix.rawtime > self.start_time
after_start_time(fix, tk) == fix.rawtime > tk.start_time

\* one iteration of the loop of check_flight; t counts turnpoints from 1,
\* stopped is a break taken, raised the failed assertion of the last branch
check_flight_step(tk, fx, st, i) ==
  IF st.stopped \/ st.raised THEN st
  ELSE IF st.t > Len(tk.turnpoints) THEN [ st EXCEPT !.stopped = TRUE ]
  ELSE IF tk.end_time < fx[i].rawtime THEN [ st EXCEPT !.stopped = TRUE ]
  ELSE
    LET tp == tk.turnpoints[st.t]
        achieved == [ st EXCEPT !.reached_turnpoints = Append(@, i), !.t = @ + 1 ]
    IN
    IF tp.kind = "start_exit" THEN
      LET st1 == IF st.proceed_to_start /\ ~in_radius(tp, fx[i]) THEN achieved ELSE st
      IN IF after_start_time(fx[i], tk) /\ ~st1.proceed_to_start
              /\ in_radius(tk.turnpoints[st1.t], fx[i])
           THEN [ st1 EXCEPT !.proceed_to_start = TRUE ] ELSE st1
    ELSE IF tp.kind = "start_enter" THEN
      LET st1 == IF st.proceed_to_start /\ in_radius(tp, fx[i]) THEN achieved ELSE st
      IN IF after_start_time(fx[i], tk) /\ ~st1.proceed_to_start
              /\ ~in_radius(tk.turnpoints[st1.t], fx[i])
           THEN [ st1 EXCEPT !.proceed_to_start = TRUE ] ELSE st1
    ELSE IF tp.kind \in {"cylinder", "End_of_speed_section", "goal_cylinder"} THEN
      IF in_radius(tp, fx[i]) THEN achieved ELSE st
    ELSE [ st EXCEPT !.raised = TRUE ]

\* Task.check_flight
check_flight(tk, fx) ==
  LET step(st, i) == check_flight_step(tk, fx, st, i)
  IN Iterate(step, 1, Len(fx),
             [ reached_turnpoints |-> << >>, proceed_to_start |-> FALSE,
               t |-> 1, stopped |-> FALSE, raised |-> FALSE ])


\* ------------------------------------------------------------ the inputs
\* a task without turnpoints
NoTask == Task(<< >>, 0, 0)

SegGaps == {30, 300}
TimeStarts == {0, 86390}
TimeGaps == {-86380, -30, 30, 60, 86380}
AltKinds == {"ramp", "flat", "first_out", "third_out"}
HDate == "HFDTE010324"

\* the rawtime columns of n B records: a start and n - 1 differences
RECURSIVE Rawtimes(_, _, _)
Rawtimes(n, starts, gaps) ==
  IF n = 1 THEN { << s >> : s \in starts }
  ELSE { Append(r, r[n-1] + g) : r \in Rawtimes(n - 1, starts, gaps), g \in gaps }

\* a sensor that climbs, one that is stuck, and climbing ones whose first
\* or third reading is above max_alt
altitude_of(kind, i) ==
  IF kind = "flat" THEN 100
  ELSE IF (kind = "first_out" /\ i = 1) \/ (kind = "third_out" /\ i = 3)
    THEN max_alt + 1
  ELSE 100 + 10 * i

\* a log along the equator; fix i is created with index = i - 1
LogOf(rt, press_kind, gnss_kind) ==
  [ i \in 1..Len(rt) |->
      [ rawtime |-> rt[i], lat |-> 0, lon |-> i * i,
        press_alt |-> altitude_of(press_kind, i),
        gnss_alt |-> altitude_of(gnss_kind, i),
        validity |-> "A", extras |-> "",
        index |-> i - 1 ] ]

Ones(n) == [ i \in 1..n |-> 1 ]
Zeros(n) == [ i \in 1..n |-> 0 ]

\* nothing of Flight.__init__ has run
FreshFlight ==
  /\ b_records = << >>
  /\ reached_turnpoints = << >>
  /\ raised = ""
  /\ bearing = << >>
  /\ bearing_change_rate = << >>
  /\ valid = TRUE
  /\ notes = << >>
  /\ attrs = {}
  /\ press_alt_valid = FALSE
  /\ gnss_alt_valid = FALSE
  /\ alt_source = "unset"
  /\ days_added = 0
  /\ date_timestamp = 0
  /\ alt = << >>
  /\ timestamp = << >>
  /\ flying = << >>
  /\ circling = << >>
  /\ takeoff_fix = None
  /\ landing_fix = None
  /\ thermals = << >>
  /\ glides = << >>

\* Flight(fixes, a_records, h_records, i_records, config) called on a log
StartOfInit ==
  /\ pc = "init"
  /\ lines = << >>
  /\ FreshFlight

\* the track of LogOf and S4Log runs east along the equator
East(n) == [ i \in 1..(n - 1) |-> 90 ]

\* logs with regular timing and every pair of decoder outputs
InitSeg ==
  /\ cfg \in SegConfigs
  /\ \E n \in 1..MaxFixes :
       /\ \E rt \in Rawtimes(n, {0}, SegGaps) : fixes = LogOf(rt, "ramp", "flat")
       /\ flying_outputs \in [1..n -> {0, 1}]
       /\ circling_outputs \in [1..n -> {0, 1}]
  /\ h_records = << HDate >>
  /\ bearing_outputs = East(Len(fixes))
  /\ task = NoTask
  /\ StartOfInit

\* longer logs: every flying decoder output with no circling, and every
\* circling decoder output on a log flown from the first fix to the last
InitLong ==
  /\ cfg \in SegConfigs
  /\ \E n \in 1..MaxFixesLong :
       /\ \E rt \in Rawtimes(n, {0}, SegGaps) : fixes = LogOf(rt, "ramp", "flat")
       /\ \/ flying_outputs \in [1..n -> {0, 1}] /\ circling_outputs = Zeros(n)
          \/ /\ cfg.which_flight_to_pick = "concat"
             /\ flying_outputs = Ones(n)
             /\ circling_outputs \in [1..n -> {0, 1}]
  /\ h_records = << HDate >>
  /\ bearing_outputs = East(Len(fixes))
  /\ task = NoTask
  /\ StartOfInit

\* logs with backward jumps and midnight crossings, flown from the first fix
InitTime ==
  /\ cfg = TimeConfig
  /\ \E n \in 1..MaxFixesTime :
       /\ \E rt \in Rawtimes(n, TimeStarts, TimeGaps) :
            /\ \A i \in 1..n : rt[i] >= 0
            /\ fixes = LogOf(rt, "ramp", "ramp")
       /\ flying_outputs = Ones(n)
       /\ circling_outputs \in { Zeros(n), [ i \in 1..n |-> IF i = 2 THEN 1 ELSE 0 ] }
  /\ h_records = << HDate >>
  /\ bearing_outputs = East(Len(fixes))
  /\ task = NoTask
  /\ StartOfInit

\* logs with either sensor stuck, with and without a date header
InitAlt ==
  /\ cfg \in SegConfigs
  /\ \E rt \in Rawtimes(3, {0}, {30}), pk \in AltKinds, gk \in AltKinds :
       fixes = LogOf(rt, pk, gk)
  /\ flying_outputs = Ones(3)
  /\ circling_outputs = Zeros(3)
  /\ h_records \in { << >>, << HDate >> }
  /\ bearing_outputs = East(Len(fixes))
  /\ task = NoTask
  /\ StartOfInit

\* Scenario S4 sampled every dt seconds under the default configuration:
\* 60 s standing, 120 s straight flight at 11 m/s, 180 s circling,
\* 120 s straight flight, 600 s standing.
S4Samplings == {20, 10, 1}
S4Standing(dt) == 60 \div dt
S4Airborne(dt) == (120 + 180 + 120) \div dt
S4CirclingFrom(dt) == (60 + 120) \div dt
S4CirclingTo(dt) == (60 + 120 + 180) \div dt
S4Len(dt) == (60 + 120 + 180 + 120 + 600) \div dt

S4FlyingOutputs(dt) ==
  [ i \in 1..S4Len(dt) |->
      IF i > S4Standing(dt) /\ i <= S4Standing(dt) + S4Airborne(dt) THEN 1 ELSE 0 ]

S4CirclingOutputs(dt) ==
  [ i \in 1..S4Len(dt) |->
      IF i > S4CirclingFrom(dt) /\ i <= S4CirclingTo(dt) THEN 1 ELSE 0 ]

S4Log(dt) ==
  [ i \in 1..S4Len(dt) |->
      [ rawtime |-> (i - 1) * dt, lat |-> 0,
        lon |-> 11 * dt * (IF i <= S4Standing(dt) THEN 0
                           ELSE IF i <= S4Standing(dt) + S4Airborne(dt)
                             THEN i - S4Standing(dt)
                           ELSE S4Airborne(dt)),
        press_alt |-> 100 + i,
        gnss_alt |-> 100 + i,
        validity |-> "A", extras |-> "",
        index |-> i - 1 ] ]

InitS4 ==
  /\ cfg = FlightParsingConfig
  /\ \E dt \in S4Samplings :
       /\ fixes = S4Log(dt)
       /\ flying_outputs = S4FlyingOutputs(dt)
       /\ circling_outputs = S4CirclingOutputs(dt)
  /\ h_records = << HDate >>
  /\ bearing_outputs = East(Len(fixes))
  /\ task = NoTask
  /\ StartOfInit

\* B record lines: canonical fields and fields the format does not
\* expect (61 minutes, 60 minutes of arc, a second at 99, a negative
\* zero altitude, the southern equator), extras with and without
\* characters outside letters, digits and "-", with and without newline
BTimes == {"110135", "006100", "235999"}
BLats == {"5206343N", "0000000S", "9960000N"}
BLons == {"00006198W", "00000000E"}
BValidities == {"A", "V"}
BPressAlts == {"00587", "-0058", "-0000"}
BExtras == {"", "abc-12", "12 x", "7\\nb"}
BEnds == {"", "\n"}
BLines ==
  { "B" \o t \o la \o lo \o v \o p \o "00558" \o x \o e :
      t \in BTimes, la \in BLats, lo \in BLons, v \in BValidities,
      p \in BPressAlts, x \in BExtras, e \in BEnds }

\* Flight.create_from_file called on a file of one B record
InitLine ==
  /\ cfg = FileConfig
  /\ \E line \in BLines : lines = << line >>
  /\ pc = "create_from_file"
  /\ fixes = << >>
  /\ h_records = << >>
  /\ \E kept \in { Len(create_from_file(lines).fixes) } :
       /\ flying_outputs = Ones(kept)
       /\ circling_outputs = Zeros(kept)
       /\ bearing_outputs = East(kept)
  /\ task = NoTask
  /\ FreshFlight

\* the k-th line of a file: a B record at one of two times, a B line
\* that is cut short, or a comment
FileTimes == {"110135", "110136"}
FileLine(kind, k) ==
  LET d == CHOOSE ch \in Digits : digit(ch) = k
  IN IF kind = "cut" THEN "B110135520\n"
     ELSE IF kind = "comment" THEN "LXXX\n"
     ELSE "B" \o kind \o "5206343N0000619" \o d \o "WA0058" \o d \o "00558\n"

\* Flight.create_from_file called on a file with a date and B records
InitFile ==
  /\ cfg = FileConfig
  /\ \E n \in 1..MaxLines :
       \E kinds \in [1..n -> FileTimes \cup {"cut", "comment"}] :
         lines = << HDate \o "\n" >> \o [ k \in 1..n |-> FileLine(kinds[k], k) ]
  /\ pc = "create_from_file"
  /\ fixes = << >>
  /\ h_records = << >>
  /\ \E kept \in { Len(create_from_file(lines).fixes) } :
       /\ flying_outputs = Ones(kept)
       /\ circling_outputs = Zeros(kept)
       /\ bearing_outputs = East(kept)
  /\ task = NoTask
  /\ FreshFlight

\* logs with every course between consecutive fixes, flown from the first
\* fix to the last, sampled every 2 or 30 seconds
BearingGaps == {2, 30}
Bearings == {0, 180, 350}
InitBearing ==
  /\ cfg = FileConfig
  /\ \E n \in 2..MaxFixesBearing :
       /\ \E rt \in Rawtimes(n, {0}, BearingGaps) : fixes = LogOf(rt, "ramp", "flat")
       /\ flying_outputs = Ones(n)
       /\ circling_outputs = Zeros(n)
       /\ bearing_outputs \in [1..(n - 1) -> Bearings]
  /\ h_records = << HDate >>
  /\ task = NoTask
  /\ StartOfInit

\* a flight sampled every 30 seconds from midnight whose fixes lie at one
\* of two places of the equator, and a task of turnpoints at these places;
\* the radius is 2, so a fix at the other place is exactly one radius away
TaskLons == {0, 2}
StartTimes == {-1, 0}
EndTimes == {30, 60}
StartKinds == {"start_exit", "start_enter"}
TaskLog(track) ==
  [ i \in 1..Len(track) |->
      [ rawtime |-> 30 * (i - 1), lat |-> 0, lon |-> track[i],
        press_alt |-> altitude_of("ramp", i),
        gnss_alt |-> altitude_of("ramp", i),
        validity |-> "A", extras |-> "",
        index |-> i - 1 ] ]
Turnpoints ==
  { << Turnpoint(0, l, 2, k) >> : l \in TaskLons, k \in TurnpointKinds }
  \cup { << Turnpoint(0, l1, 2, k1), Turnpoint(0, l2, 2, k2) >> :
           l1 \in TaskLons, k1 \in StartKinds,
           l2 \in TaskLons, k2 \in TurnpointKinds \ StartKinds }
InitTask ==
  /\ cfg = FileConfig
  /\ \E track \in [1..MaxFixesTask -> TaskLons] : fixes = TaskLog(track)
  /\ flying_outputs = Ones(MaxFixesTask)
  /\ circling_outputs = Zeros(MaxFixesTask)
  /\ bearing_outputs = East(MaxFixesTask)
  /\ h_records = << HDate >>
  /\ \E tps \in Turnpoints, s \in StartTimes, e \in EndTimes : task = Task(tps, s, e)
  /\ StartOfInit

\* a log of two fixes with one or two date headers: real dates, days that
\* the month does not have, a day and a month outside 1..31 and 1..12,
\* and the HFDTEDATE: form
HDates ==
  {"HFDTE010324", "HFDTE290224", "HFDTE300224", "HFDTE290223", "HFDTE310424",
   "HFDTE000324", "HFDTE011324", "HFDTEDATE: 010324", "HFDTEDATE:310624"}
InitDate ==
  /\ cfg = FileConfig
  /\ fixes = LogOf(<< 0, 30 >>, "ramp", "ramp")
  /\ flying_outputs = Ones(2)
  /\ circling_outputs = Zeros(2)
  /\ bearing_outputs = East(2)
  /\ \E h1 \in HDates : \E h2 \in HDates : h_records \in { << h1 >>, << h1, h2 >> }
  /\ task = NoTask
  /\ StartOfInit

\* logs of no fix, one fix and two fixes under a min_fixes of 0 and 1
FewLogs == { << >>, LogOf(<< 0 >>, "ramp", "ramp"), LogOf(<< 0, 30 >>, "ramp", "ramp") }
InitFew ==
  /\ cfg \in FewConfigs
  /\ fixes \in FewLogs
  /\ flying_outputs = Ones(Len(fixes))
  /\ circling_outputs = Zeros(Len(fixes))
  /\ bearing_outputs = East(Len(fixes))
  /\ h_records = << HDate >>
  /\ task = NoTask
  /\ StartOfInit

Init ==
  InitFew \/ InitDate \/ InitSeg \/ InitLong \/ InitTime \/ InitAlt \/ InitS4 \/ InitLine \/ InitFile
    \/ InitBearing \/ InitTask

\* ----------------------------------------------------- Flight.__init__
Stop == pc' = "done"

\* lines 66-95: the loop over the lines of the file
do_create_from_file ==
  /\ pc = "create_from_file"
  /\ LET r == create_from_file(lines) IN
       /\ fixes' = r.fixes
       /\ h_records' = r.h_records
  /\ pc' = "init"
  /\ UNCHANGED <<task, reached_turnpoints, raised, bearing_outputs, bearing, bearing_change_rate, lines, b_records, cfg, flying_outputs, circling_outputs,
                 valid, notes, attrs, press_alt_valid, gnss_alt_valid,
                 alt_source, days_added, date_timestamp, alt, timestamp,
                 flying, circling, takeoff_fix, landing_fix, thermals, glides>>

\* a caller of the finished Flight emits every fix with to_B_record
to_B_records ==
  /\ pc = "done"
  /\ b_records' = [ i \in 1..Len(fixes) |-> to_B_record(fixes[i]) ]
  /\ pc' = "emitted"
  /\ UNCHANGED <<task, reached_turnpoints, raised, bearing_outputs, bearing, bearing_change_rate, lines, cfg, fixes, h_records, flying_outputs, circling_outputs,
                 valid, notes, attrs, press_alt_valid, gnss_alt_valid,
                 alt_source, days_added, date_timestamp, alt, timestamp,
                 flying, circling, takeoff_fix, landing_fix, thermals, glides>>

\* lines 100-109: the minimum number of fixes
flight_init ==
  /\ pc = "init"
  /\ IF Len(fixes) < cfg.min_fixes
       THEN /\ notes' = Append(notes, "Error: This file has less fixes than the minimum")
            /\ valid' = FALSE
            /\ Stop
       ELSE /\ pc' = "check_altitudes"
            /\ UNCHANGED <<notes, valid>>
  /\ UNCHANGED <<task, reached_turnpoints, raised, bearing_outputs, bearing, bearing_change_rate, lines, b_records, cfg, fixes, h_records, flying_outputs, circling_outputs,
                 attrs, press_alt_valid, gnss_alt_valid, alt_source,
                 days_added, date_timestamp, alt, timestamp, flying, circling,
                 takeoff_fix, landing_fix, thermals, glides>>

\* lines 111-113
do_check_altitudes ==
  /\ pc = "check_altitudes"
  /\ LET r == check_altitudes(fixes, cfg) IN
       IF r.raised # ""
         THEN /\ raised' = r.raised
              /\ pc' = "raised"
              /\ UNCHANGED <<notes, press_alt_valid, gnss_alt_valid, attrs>>
         ELSE /\ notes' = notes \o r.notes
              /\ press_alt_valid' = r.press_alt_valid
              /\ gnss_alt_valid' = r.gnss_alt_valid
              /\ attrs' = attrs \cup {"press_alt_valid", "gnss_alt_valid"}
              /\ pc' = IF valid THEN "check_fix_rawtime" ELSE "done"
              /\ UNCHANGED raised
  /\ UNCHANGED <<task, reached_turnpoints, bearing_outputs, bearing, bearing_change_rate, lines, b_records, cfg, fixes, h_records, flying_outputs, circling_outputs,
                 valid, alt_source, days_added, date_timestamp, alt, timestamp,
                 flying, circling, takeoff_fix, landing_fix, thermals, glides>>

\* lines 115-117
do_check_fix_rawtime ==
  /\ pc = "check_fix_rawtime"
  /\ LET r == check_fix_rawtime(fixes, cfg) IN
       /\ fixes' = r.fixes
       /\ days_added' = r.days_added
       /\ notes' = notes \o r.notes
       /\ valid' = (valid /\ r.valid)
       /\ pc' = IF valid /\ r.valid THEN "alt_source" ELSE "done"
  /\ UNCHANGED <<task, reached_turnpoints, raised, bearing_outputs, bearing, bearing_change_rate, lines, b_records, cfg, h_records, flying_outputs, circling_outputs, attrs,
                 press_alt_valid, gnss_alt_valid, alt_source, date_timestamp,
                 alt, timestamp, flying, circling, takeoff_fix, landing_fix,
                 thermals, glides>>

\* lines 119-127
choose_alt_source ==
  /\ pc = "alt_source"
  /\ IF press_alt_valid
       THEN /\ alt_source' = "PRESS"
            /\ attrs' = attrs \cup {"alt_source"}
            /\ pc' = "parse_records"
            /\ UNCHANGED <<notes, valid>>
     ELSE IF gnss_alt_valid
       THEN /\ alt_source' = "GNSS"
            /\ attrs' = attrs \cup {"alt_source"}
            /\ pc' = "parse_records"
            /\ UNCHANGED <<notes, valid>>
     ELSE /\ notes' = Append(notes, "Error: neither pressure nor gnss altitude is valid.")
          /\ valid' = FALSE
          /\ Stop
          /\ UNCHANGED <<alt_source, attrs>>
  /\ UNCHANGED <<task, reached_turnpoints, raised, bearing_outputs, bearing, bearing_change_rate, lines, b_records, cfg, fixes, h_records, flying_outputs, circling_outputs,
                 press_alt_valid, gnss_alt_valid, days_added, date_timestamp,
                 alt, timestamp, flying, circling, takeoff_fix, landing_fix,
                 thermals, glides>>

\* lines 129-139
parse_records ==
  /\ pc = "parse_records"
  /\ LET r == parse_h_records(h_records, 1,
                [set |-> FALSE, date_timestamp |-> 0, raised |-> ""]) IN
       IF r.raised # ""
         THEN /\ raised' = r.raised
              /\ pc' = "raised"
              /\ UNCHANGED <<notes, valid, date_timestamp, attrs>>
       ELSE IF r.set
         THEN /\ date_timestamp' = r.date_timestamp
              /\ attrs' = attrs \cup {"date_timestamp"}
              /\ pc' = "set_flight"
              /\ UNCHANGED <<notes, valid, raised>>
         ELSE /\ notes' = Append(notes, "Error: no date record (HFDTE) in the file")
              /\ valid' = FALSE
              /\ Stop
              /\ UNCHANGED <<date_timestamp, attrs, raised>>
  /\ UNCHANGED <<task, reached_turnpoints, bearing_outputs, bearing, bearing_change_rate, lines, b_records, cfg, fixes, h_records, flying_outputs, circling_outputs,
                 press_alt_valid, gnss_alt_valid, alt_source, days_added,
                 alt, timestamp, flying, circling, takeoff_fix, landing_fix,
                 thermals, glides>>

\* lines 141-142
set_flight ==
  /\ pc = "set_flight"
  /\ alt' = [ i \in 1..Len(fixes) |-> set_flight_alt(fixes[i], alt_source) ]
  /\ timestamp' = [ i \in 1..Len(fixes) |-> set_flight_timestamp(fixes[i], date_timestamp) ]
  /\ attrs' = attrs \cup {"alt", "timestamp"}
  /\ pc' = "compute_flight"
  /\ UNCHANGED <<task, reached_turnpoints, raised, bearing_outputs, bearing, bearing_change_rate, lines, b_records, cfg, fixes, h_records, flying_outputs, circling_outputs,
                 valid, notes, press_alt_valid, gnss_alt_valid, alt_source,
                 days_added, date_timestamp, flying, circling, takeoff_fix,
                 landing_fix, thermals, glides>>

\* lines 144-145: _compute_ground_speeds, _compute_flight
do_compute_flight ==
  /\ pc = "compute_flight"
  /\ flying' = compute_flight(fixes, flying_outputs, cfg)
  /\ attrs' = attrs \cup {"gsp", "flying"}
  /\ pc' = "compute_takeoff_landing"
  /\ UNCHANGED <<task, reached_turnpoints, raised, bearing_outputs, bearing, bearing_change_rate, lines, b_records, cfg, fixes, h_records, flying_outputs, circling_outputs,
                 valid, notes, press_alt_valid, gnss_alt_valid, alt_source,
                 days_added, date_timestamp, alt, timestamp, circling,
                 takeoff_fix, landing_fix, thermals, glides>>

\* lines 146-150
do_compute_takeoff_landing ==
  /\ pc = "compute_takeoff_landing"
  /\ LET r == compute_takeoff_landing(flying, cfg) IN
       IF r.takeoff_fix = None
         THEN /\ notes' = Append(notes, "Error: did not detect takeoff.")
              /\ valid' = FALSE
              /\ Stop
              /\ UNCHANGED <<takeoff_fix, landing_fix, attrs>>
         ELSE /\ takeoff_fix' = r.takeoff_fix
              /\ landing_fix' = r.landing_fix
              /\ attrs' = attrs \cup {"takeoff_fix", "landing_fix"}
              /\ pc' = "compute_circling"
              /\ UNCHANGED <<notes, valid>>
  /\ UNCHANGED <<task, reached_turnpoints, raised, bearing_outputs, bearing, bearing_change_rate, lines, b_records, cfg, fixes, h_records, flying_outputs, circling_outputs,
                 press_alt_valid, gnss_alt_valid, alt_source, days_added,
                 date_timestamp, alt, timestamp, flying, circling,
                 thermals, glides>>

\* lines 152-154: _compute_bearings, _compute_bearing_change_rates,
\* _compute_circling
do_compute_circling ==
  /\ pc = "compute_circling"
  /\ bearing' = compute_bearings(bearing_outputs, Len(fixes))
  /\ bearing_change_rate' =
       compute_bearing_change_rates(compute_bearings(bearing_outputs, Len(fixes)),
                                    timestamp, cfg)
  /\ circling' = compute_circling(circling_outputs)
  /\ attrs' = attrs \cup {"bearing", "bearing_change_rate", "circling"}
  /\ pc' = "find_thermals"
  /\ UNCHANGED <<task, reached_turnpoints, raised, bearing_outputs, lines, b_records, cfg, fixes, h_records, flying_outputs, circling_outputs,
                 valid, notes, press_alt_valid, gnss_alt_valid, alt_source,
                 days_added, date_timestamp, alt, timestamp, flying,
                 takeoff_fix, landing_fix, thermals, glides>>

\* line 155
do_find_thermals ==
  /\ pc = "find_thermals"
  /\ LET r == find_thermals(fixes, circling, cfg, takeoff_fix, landing_fix) IN
       /\ thermals' = r.thermals
       /\ glides' = r.glides
  /\ attrs' = attrs \cup {"thermals", "glides"}
  /\ Stop
  /\ UNCHANGED <<task, reached_turnpoints, raised, bearing_outputs, bearing, bearing_change_rate, lines, b_records, cfg, fixes, h_records, flying_outputs, circling_outputs,
                 valid, notes, press_alt_valid, gnss_alt_valid, alt_source,
                 days_added, date_timestamp, alt, timestamp, flying, circling,
                 takeoff_fix, landing_fix>>

\* Task.check_flight called on the Flight
do_check_flight ==
  /\ pc = "done"
  /\ LET r == check_flight(task, fixes) IN
       /\ raised' = IF r.raised THEN "AssertionError" ELSE ""
       /\ reached_turnpoints' = IF r.raised THEN << >> ELSE r.reached_turnpoints
  /\ pc' = "checked"
  /\ UNCHANGED <<task, bearing_outputs, bearing, bearing_change_rate, lines, b_records, cfg, fixes, h_records, flying_outputs, circling_outputs,
                 valid, notes, attrs, press_alt_valid, gnss_alt_valid,
                 alt_source, days_added, date_timestamp, alt, timestamp,
                 flying, circling, takeoff_fix, landing_fix, thermals, glides>>

Next ==
  \/ do_create_from_file
  \/ flight_init
  \/ do_check_altitudes
  \/ do_check_fix_rawtime
  \/ choose_alt_source
  \/ parse_records
  \/ set_flight
  \/ do_compute_flight
  \/ do_compute_takeoff_landing
  \/ do_compute_circling
  \/ do_find_thermals
  \/ to_B_records
  \/ do_check_flight

Spec == Init /\ [][Next]_vars


\* =================================================================
\* Properties
\* =================================================================
Done == pc = "done"
N == Len(fixes)
Has(a) == a \in attrs

\* positions i whose successor has a smaller rawtime
BackwardJumps == { i \in 1..(N - 1) : fixes[i+1].rawtime < fixes[i].rawtime }

\* C1 as stated: every flight that ends construction valid has its fixes
\* in non-decreasing rawtime order.
C1_FixesTimeOrdered == (Done /\ valid) => BackwardJumps = {}

\* C1 amended: in a flight that ends construction valid, rawtime decreases
\* between two consecutive fixes at no more than max_time_violations places.
C1_BackwardJumpsBounded ==
  (Done /\ valid) => Cardinality(BackwardJumps) <= cfg.max_time_violations

\* a valid flight with a repaired midnight crossing and a remaining
\* backward jump
C1_Witness == Done /\ valid /\ days_added >= 1 /\ BackwardJumps # {}

\* the last position labelled flying (None if there is none)
LastFlying ==
  IF \E i \in 1..Len(flying) : flying[i]
    THEN CHOOSE i \in 1..Len(flying) :
           flying[i] /\ \A k \in (i + 1)..Len(flying) : ~flying[k]
    ELSE None

\* C2: in "concat" mode landing_fix is the fix right after the last flying
\* run, and the last fix of the log when the log ends flying.
C2_LandingAfterLastFlyingRun ==
  (Has("landing_fix") /\ cfg.which_flight_to_pick = "concat")
    => landing_fix = (IF flying[N] THEN N ELSE LastFlying + 1)

NoFlyingFix == Has("flying") /\ \A i \in 1..Len(flying) : ~flying[i]
SegmentAttrs == {"takeoff_fix", "landing_fix", "thermals", "glides"}

\* C3 as stated: without a flying fix the flight stays valid, with no
\* takeoff, landing, thermals or glides.
C3_NoTakeoffKeepsValid ==
  (Done /\ NoFlyingFix) => (valid /\ attrs \cap SegmentAttrs = {})

\* C3 amended: without a flying fix construction ends with valid false and
\* the note "Error: did not detect takeoff." as its last note, and with no
\* takeoff, landing, thermals or glides.
C3_NoTakeoffIsError ==
  (Done /\ NoFlyingFix)
    => /\ ~valid
       /\ notes # << >>
       /\ notes[Len(notes)] = "Error: did not detect takeoff."
       /\ attrs \cap SegmentAttrs = {}
       /\ thermals = << >> /\ glides = << >>

\* a finished flight of several fixes none of which is labelled flying
C3_Witness == Done /\ NoFlyingFix /\ N >= 2 /\ Has("alt")

IsS4(dt) ==
  /\ cfg = FlightParsingConfig
  /\ fixes = S4Log(dt)
  /\ flying_outputs = S4FlyingOutputs(dt)
  /\ flying_outputs = flying_emissions(fixes, cfg)
  /\ circling_outputs = S4CirclingOutputs(dt)

\* C4: on scenario S4 takeoff_fix is the first fix of the first flying
\* segment, landing_fix the first standing fix after the second straight
\* segment, and there are one thermal and two glides.
C4_ScenarioS4 ==
  \A dt \in S4Samplings :
    (Done /\ IsS4(dt))
      => /\ valid
         /\ takeoff_fix = S4Standing(dt) + 1
         /\ landing_fix = S4Standing(dt) + S4Airborne(dt) + 1
         /\ Len(thermals) = 1
         /\ Len(glides) = 2

\* the least element of a non-empty set of positions
Least(S) == CHOOSE k \in S : \A m \in S : k <= m

\* maximal runs a..b of fixes the decoder said are standing
StandingRuns ==
  LET starts == { a \in 1..N : /\ flying_outputs[a] = 0
                                /\ (a = 1 \/ flying_outputs[a - 1] = 1) }
      end(a) == LET later == { k \in a..N : flying_outputs[k] = 1 }
                IN IF later = {} THEN N ELSE Least(later) - 1
  IN { << a, end(a) >> : a \in starts }

RunIsLanding(r) ==
  r[2] = N \/ fixes[r[2] + 1].rawtime - fixes[r[1]].rawtime >= min_landing_time

\* C5: a fix decoded flying is labelled flying; a run of fixes decoded
\* standing is labelled not flying as a whole when it reaches the end of the
\* log or the next decoded-flying fix is at least min_landing_time after
\* the first fix of the run, and flying as a whole otherwise.
C5_LandingDurationFilter ==
  Has("flying") =>
    /\ Len(flying) = N
    /\ \A i \in 1..N : flying_outputs[i] = 1 => flying[i]
    /\ \A r \in StandingRuns :
         \A k \in r[1]..r[2] : flying[k] = ~RunIsLanding(r)

\* a log with one standing run relabelled flying and a later standing run
\* inside the log kept as a landing of exactly min_landing_time
C5_Witness ==
  /\ Has("flying")
  /\ \E r \in StandingRuns : r[1] > 1 /\ r[2] < N /\ flying[r[1]]
  /\ \E r \in StandingRuns :
       /\ r[2] < N /\ ~flying[r[1]]
       /\ fixes[r[2] + 1].rawtime - fixes[r[1]].rawtime = min_landing_time

SliceFirst == fixes[takeoff_fix].index + 1
SliceLast == fixes[landing_fix].index + 1

\* circling episodes s..e-1 of the flight slice closed by the fix e
ClosedEpisodes ==
  LET starts == { a \in SliceFirst..SliceLast :
                    circling[a] /\ (a = SliceFirst \/ ~circling[a - 1]) }
      straight(a) == { k \in a..SliceLast : ~circling[k] }
  IN { << a, Least(straight(a)) >> : a \in { b \in starts : straight(b) # {} } }

LongEnough(enter, exit) ==
  LET duration == fixes[exit].rawtime - fixes[enter].rawtime
  IN duration >= min_time_for_thermal
       \/ (duration > min_time_for_thermal - 1
             /\ (min_time_for_thermal - duration) * E5 < 1)

\* C6: every thermal lasts more than min_time_for_thermal - 1e-5, and a
\* circling episode that does not yields no thermal.
C6_ThermalMinimumDuration ==
  Has("thermals") =>
    /\ \A k \in 1..Len(thermals) :
         LongEnough(thermals[k].enter_fix, thermals[k].exit_fix)
    /\ \A r \in ClosedEpisodes :
         ~LongEnough(r[1], r[2])
           => \A k \in 1..Len(thermals) :
                thermals[k].enter_fix # r[1] /\ thermals[k].exit_fix # r[2]

\* a flight with a thermal of exactly min_time_for_thermal and a rejected
\* circling episode
C6_Witness ==
  /\ Has("thermals")
  /\ \E k \in 1..Len(thermals) :
       fixes[thermals[k].exit_fix].rawtime - fixes[thermals[k].enter_fix].rawtime
         = min_time_for_thermal
  /\ \E r \in ClosedEpisodes : ~LongEnough(r[1], r[2])

\* C7: the k-th glide ends at the fix where the k-th thermal begins; the
\* first glide starts at takeoff; exactly one glide lies between two
\* consecutive thermals and it ends where the later one begins.
C7_GlideEndsAtThermalEntry ==
  Has("thermals") =>
    /\ Len(glides) >= Len(thermals)
    /\ glides # << >> => glides[1].enter_fix = takeoff_fix
    /\ \A k \in 1..Len(thermals) : glides[k].exit_fix = thermals[k].enter_fix
    /\ \A k \in 2..Len(thermals) :
         LET between == { j \in 1..Len(glides) :
                            /\ glides[j].enter_fix >= thermals[k-1].exit_fix
                            /\ glides[j].exit_fix <= thermals[k].enter_fix }
         IN between = {k}

\* a flight with two thermals, the first of more than one circling fix
C7_Witness ==
  /\ Has("thermals")
  /\ Len(thermals) >= 2
  /\ thermals[1].exit_fix > thermals[1].enter_fix + 1

LastThermalExit ==
  IF thermals = << >> THEN None ELSE thermals[Len(thermals)].exit_fix

GlideToLanding ==
  \E j \in 1..Len(glides) : j > Len(thermals) /\ glides[j].exit_fix >= LastThermalExit

\* C8: a glide past the last thermal is emitted if and only if the flight
\* slice does not end on a circling fix.
C8_FinalGlideIffNotCircling ==
  Has("glides") => (GlideToLanding <=> ~circling[SliceLast])

\* C9: takeoff is not after landing, a thermal's exit is after its entry,
\* and thermals and glides are ordered intervals of fix indices that share
\* at most an endpoint.
C9_MonotoneIndices ==
  LET ix(p) == fixes[p].index IN
  /\ Has("takeoff_fix") => ix(takeoff_fix) <= ix(landing_fix)
  /\ Has("thermals") =>
       /\ \A k \in 1..Len(thermals) :
            ix(thermals[k].enter_fix) < ix(thermals[k].exit_fix)
       /\ \A k \in 1..Len(glides) :
            ix(glides[k].enter_fix) <= ix(glides[k].exit_fix)
       /\ \A k \in 2..Len(thermals) :
            ix(thermals[k-1].exit_fix) <= ix(thermals[k].enter_fix)
       /\ \A k \in 2..Len(glides) :
            ix(glides[k-1].exit_fix) <= ix(glides[k].enter_fix)
       /\ \A k \in 1..Len(thermals), j \in 1..Len(glides) :
            \/ ix(glides[j].exit_fix) <= ix(thermals[k].enter_fix)
            \/ ix(thermals[k].exit_fix) <= ix(glides[j].enter_fix)

\* a flight with two thermals and a glide of several fixes between them
C9_Witness ==
  /\ Has("thermals")
  /\ Len(thermals) >= 2
  /\ Len(glides) = 3
  /\ glides[2].exit_fix > glides[2].enter_fix

\* the length of the track from fix a to fix b
RECURSIVE TrackLength(_, _)
TrackLength(a, b) ==
  IF b <= a THEN 0
  ELSE IF b = a + 1 THEN distance_to(fixes[b], fixes[a])
  ELSE LET mid == (a + b) \div 2 IN TrackLength(a, mid) + TrackLength(mid, b)

\* C10: the track_length of every glide is the sum of the distances between
\* consecutive fixes from its enter_fix to its exit_fix.
C10_GlideTrackLength ==
  Has("glides") =>
    \A k \in 1..Len(glides) :
      glides[k].track_length = TrackLength(glides[k].enter_fix, glides[k].exit_fix)


\* the midnight crossings of a parsed log at or before position i
Crossings(fx, i) ==
  { j \in 2..i : /\ fx[j].rawtime < fx[j-1].rawtime
                 /\ fx[j].rawtime + 86400 < fx[j-1].rawtime + 200 }

\* C11: _check_fix_rawtime adds 86400 s to a fix once for every midnight
\* crossing at or before it (a fix below its predecessor by more than
\* 86400 - 200 s), counts every crossing once in days_added, and turns
\* the rawtimes 86390, 10 into 86390, 86410 with one day added.
C11_MidnightRepair ==
  [][ pc = "check_fix_rawtime" =>
        /\ \A i \in 1..N :
             fixes'[i].rawtime = fixes[i].rawtime + 86400 * Cardinality(Crossings(fixes, i))
        /\ days_added' = Cardinality(Crossings(fixes, N))
        /\ (N >= 2 /\ fixes[1].rawtime = 86390 /\ fixes[2].rawtime = 10)
             => fixes'[2].rawtime = 86410 /\ days_added' >= 1 ]_vars

\* two crossings were repaired, the second fix being the example's 86410
C11_Witness ==
  /\ pc # "init" /\ pc # "check_altitudes" /\ pc # "check_fix_rawtime"
  /\ days_added = 2 /\ N >= 4
  /\ fixes[1].rawtime = 86390 /\ fixes[2].rawtime = 86410
  /\ fixes[N].rawtime >= 2 * 86400

\* the altitude and time checks are behind and neither stopped construction
TimeErrors ==
  { "Error: too many fixes intervals exceed time between fixes constraints",
    "Error: too many times did the flight cross the UTC 0:00 barrier" }
PassedChecks ==
  /\ pc \notin {"init", "check_altitudes", "check_fix_rawtime", "alt_source"}
  /\ Has("press_alt_valid")
  /\ \A k \in 1..Len(notes) : notes[k] \notin TimeErrors

\* C12: once the altitude and time checks are passed, alt_source is PRESS
\* exactly when press_alt_valid, GNSS exactly when press_alt_valid is false
\* and gnss_alt_valid is true, the flight is invalid when both are false,
\* and after set_flight every fix's alt is the chosen sensor's altitude.
C12_AltSource ==
  PassedChecks =>
    /\ alt_source = "PRESS" <=> press_alt_valid
    /\ alt_source = "GNSS" <=> (~press_alt_valid /\ gnss_alt_valid)
    /\ (~press_alt_valid /\ ~gnss_alt_valid) => (~valid /\ ~Has("alt"))
    /\ Has("alt") =>
         /\ Len(alt) = N
         /\ \A i \in 1..N :
              alt[i] = IF alt_source = "PRESS" THEN fixes[i].press_alt
                       ELSE fixes[i].gnss_alt

\* the GNSS source was chosen on a log whose two sensors disagree
C12_Witness ==
  /\ PassedChecks /\ Has("alt") /\ alt_source = "GNSS" /\ ~press_alt_valid
  /\ \E i \in 1..N : fixes[i].press_alt # fixes[i].gnss_alt /\ alt[i] = fixes[i].gnss_alt

IsError(note) == Len(note) >= 6 /\ SubSeq(note, 1, 6) = "Error:"
IsWarning(note) == Len(note) >= 8 /\ SubSeq(note, 1, 8) = "Warning:"

\* the notes of the fatal conditions met before the first pass over the fixes
FatalBeforePasses ==
  TimeErrors \cup
    { "Error: This file has less fixes than the minimum",
      "Error: neither pressure nor gnss altitude is valid.",
      "Error: no date record (HFDTE) in the file" }
PassAttrs ==
  {"gsp", "flying", "bearing", "bearing_change_rate", "circling",
   "thermals", "glides", "takeoff_fix", "landing_fix"}

\* C13: a constructed Flight is invalid exactly when one of its notes
\* starts with "Error:", and after too few fixes, too many time violations
\* or midnight crossings, no valid altitude sensor or no date, no pass has
\* run: no fix has gsp, flying, bearing or circling and thermals, glides,
\* takeoff_fix and landing_fix are unset.
C13_InvalidIffErrorNote ==
  Done =>
    /\ ~valid <=> \E k \in 1..Len(notes) : IsError(notes[k])
    /\ (\E k \in 1..Len(notes) : notes[k] \in FatalBeforePasses) =>
         /\ ~valid
         /\ attrs \cap PassAttrs = {}
         /\ flying = << >> /\ circling = << >>
         /\ thermals = << >> /\ glides = << >>
         /\ takeoff_fix = None /\ landing_fix = None

\* a warning about the pressure sensor, then the missing date stopped
\* construction after alt_source was chosen
C13_Witness ==
  /\ Done /\ ~valid /\ alt_source = "GNSS" /\ Len(notes) = 2
  /\ IsWarning(notes[1])
  /\ notes[2] = "Error: no date record (HFDTE) in the file"

\* a file of one line was read and its fix emitted
OneLineEmitted == pc = "emitted" /\ Len(lines) = 1
\* to_B_record(build_from_B_record(L))
RoundTrip(L) == to_B_record(build_from_B_record(L, 0))
\* the second round returns what the first returned
SecondRoundSame(L) ==
  B_record_match(RoundTrip(L)) /\ RoundTrip(RoundTrip(L)) = RoundTrip(L)
\* an accepted line with hours below 24 that ends with extras of letters,
\* digits and "-"
C14Line(L) ==
  /\ B_record_match(L)
  /\ int(Slice(L, 2, 3)) < 24
  /\ extras_end(L, 35) = Len(L)
\* every field is written the way to_B_record writes it
CanonicalFields(L) ==
  /\ int(Slice(L, 4, 5)) < 60 /\ int(Slice(L, 6, 7)) < 60
  /\ int(Slice(L, 10, 11)) < 60 /\ int(Slice(L, 19, 20)) < 60
  /\ Slice(L, 26, 30) # "-0000" /\ Slice(L, 31, 35) # "-0000"
  /\ Slice(L, 8, 15) # "0000000S" /\ Slice(L, 16, 24) # "00000000W"

\* C14 as stated: every accepted line with hours below 24 and extras of
\* letters, digits and "-" is emitted unchanged, and a second round of
\* parsing and emitting returns the string of the first.
C14_RoundTripExact ==
  (OneLineEmitted /\ C14Line(lines[1])) =>
    /\ b_records = << lines[1] >>
    /\ SecondRoundSame(lines[1])

\* C14 amended: the same for lines whose minutes, seconds and minutes of
\* arc are below 60, whose altitude fields are not -0000 and whose zero
\* coordinates carry N or E; B1101355206343N00006198WA0058700558 is one.
C14_RoundTripCanonical ==
  (OneLineEmitted /\ C14Line(lines[1]) /\ CanonicalFields(lines[1])) =>
    /\ b_records = << lines[1] >>
    /\ SecondRoundSame(lines[1])

\* the line of scenario S6 came back from to_B_record
C14_Witness ==
  /\ OneLineEmitted
  /\ lines[1] = "B1101355206343N00006198WA0058700558"
  /\ b_records = << "B1101355206343N00006198WA0058700558" >>

\* the fixes whose rate comes from a bearing difference, and that difference
RatedFixes ==
  { p \in 1..Len(bearing_change_rate) :
      /\ find_prev_fix(timestamp, p, cfg) # None
      /\ timestamp[p] # timestamp[find_prev_fix(timestamp, p, cfg)] }
RawChange(p) == bearing[p] - bearing[find_prev_fix(timestamp, p, cfg)]

\* C15 as stated: the bearing difference used for a fix lies in
\* (-180, 180], a raw difference congruent to 180 modulo 360 becoming +180.
C15_HalfOpenInterval ==
  \A p \in RatedFixes :
    /\ -180 < bearing_change_rate[p].num /\ bearing_change_rate[p].num <= 180
    /\ RawChange(p) % 360 = 180 => bearing_change_rate[p].num = 180

\* C15 amended: the bearing difference used for a fix lies in [-180, 180]
\* and differs from the raw difference by a multiple of 360; a raw
\* difference of -180 stays -180 and one of +180 stays +180.
C15_ClosedInterval ==
  \A p \in RatedFixes :
    /\ -180 <= bearing_change_rate[p].num /\ bearing_change_rate[p].num <= 180
    /\ (bearing_change_rate[p].num - RawChange(p)) % 360 = 0
    /\ RawChange(p) \in {-180, 180} => bearing_change_rate[p].num = RawChange(p)
    /\ bearing_change_rate[p].den = timestamp[p] - timestamp[find_prev_fix(timestamp, p, cfg)]

\* a turn from 180 to 0 degrees was rated over more than one interval
C15_Witness ==
  \E p \in RatedFixes :
    /\ RawChange(p) = -180 /\ bearing_change_rate[p].num = -180
    /\ find_prev_fix(timestamp, p, cfg) < p - 1

\* the rawtimes parsed from the B records of the file, in file order
IsBRecord(raw_line) ==
  LET line == replace(replace(raw_line, "\\n"), "\\r")
  IN Ch(line, 1) = "B" /\ B_record_match(line)
ParsedTimes ==
  LET records == SelectSeq(lines, IsBRecord)
  IN [ k \in 1..Len(records) |->
         build_from_B_record(replace(replace(records[k], "\\n"), "\\r"), 0).rawtime ]
\* a parsed record is dropped exactly when the record parsed before it,
\* kept or not, has its rawtime: that one has the rawtime of the last kept
KeptRecords ==
  { k \in 1..Len(ParsedTimes) : k = 1 \/ ParsedTimes[k] # ParsedTimes[k - 1] }
FileRead == pc = "init" /\ lines # << >>

\* C16: create_from_file drops, without a note, every parsed B record whose
\* rawtime is that of the last kept fix, whatever lines lie in between;
\* no two consecutive kept fixes have the same parsed rawtime, and a kept
\* fix has the number of fixes kept before it as index.
C16_DuplicateSuppression ==
  FileRead =>
    /\ notes = << >>
    /\ Len(fixes) = Cardinality(KeptRecords)
    /\ \A i \in 1..Len(fixes) :
         /\ fixes[i].index = i - 1
         /\ \E k \in KeptRecords :
              /\ Cardinality({ m \in KeptRecords : m <= k }) = i
              /\ fixes[i].rawtime = ParsedTimes[k]
    /\ \A i \in 1..(Len(fixes) - 1) : fixes[i + 1].rawtime # fixes[i].rawtime

\* the second of two records at one time was dropped although a line that
\* is not a B record lies between them
C16_Witness ==
  /\ FileRead /\ Len(fixes) = 1 /\ Len(ParsedTimes) = 2 /\ Len(lines) = 4
  /\ ~IsBRecord(lines[3])

\* the line create_from_file hands to build_from_B_record, and what
\* follows its altitude fields up to the line terminator
HandedLine == replace(replace(lines[1], "\\n"), "\\r")
AfterAltitudes ==
  IF Ch(HandedLine, Len(HandedLine)) = "\n"
    THEN Slice(HandedLine, 36, Len(HandedLine) - 1)
    ELSE From(HandedLine, 36)
EndsWith(s, tail) == Len(tail) <= Len(s) /\ From(s, Len(s) - Len(tail) + 1) = tail
OneFixEmitted == OneLineEmitted /\ Len(fixes) = 1

\* C17 as stated: extras is everything that follows the altitude fields up
\* to the line terminator, whatever its characters, and to_B_record emits
\* it unchanged.
C17_ExtrasVerbatim ==
  OneFixEmitted =>
    /\ fixes[1].extras = AfterAltitudes
    /\ EndsWith(b_records[1], AfterAltitudes)

\* C17 amended: extras is the longest run of letters, digits and "-" at
\* the start of what follows the altitude fields; what comes after that
\* run is not stored; to_B_record ends with the stored extras.
C17_ExtrasLongestRun ==
  OneFixEmitted =>
    LET n == Len(fixes[1].extras) IN
      /\ fixes[1].extras = Slice(AfterAltitudes, 1, n)
      /\ \A k \in 1..n : Ch(AfterAltitudes, k) \in Digits \cup Letters \cup {"-"}
      /\ Ch(AfterAltitudes, n + 1) \notin Digits \cup Letters \cup {"-"}
      /\ EndsWith(b_records[1], fixes[1].extras)
      /\ Len(b_records[1]) >= 35 + n

\* the extras "12 x" were stored and emitted as "12"
C17_Witness ==
  /\ OneFixEmitted
  /\ AfterAltitudes = "12 x"
  /\ fixes[1].extras = "12"
  /\ EndsWith(b_records[1], "0055812")

\* the intervals of a log whose gap lies outside
\* [min_seconds_between_fixes, max_seconds_between_fixes]
GapViolations(fx) ==
  { i \in 2..Len(fx) :
      \/ fx[i].rawtime - fx[i-1].rawtime < cfg.min_seconds_between_fixes
      \/ fx[i].rawtime - fx[i-1].rawtime > cfg.max_seconds_between_fixes }

\* C18: _check_fix_rawtime leaves the flight valid exactly when the number
\* of intervals whose corrected gap is outside the allowed range is at most
\* max_time_violations and the number of midnight crossings is at most
\* max_new_days_in_flight; a count at its limit is not fatal.
C18_TimeSanity ==
  [][ pc = "check_fix_rawtime" =>
        (valid' <=> /\ Cardinality(GapViolations(fixes')) <= cfg.max_time_violations
                    /\ Cardinality(Crossings(fixes, N)) <= cfg.max_new_days_in_flight) ]_vars

\* a flight passed the check with both counts at their limits
C18_Witness ==
  /\ pc \notin {"init", "check_altitudes", "check_fix_rawtime"}
  /\ cfg = TimeConfig /\ valid /\ Has("press_alt_valid")
  /\ Cardinality(GapViolations(fixes)) = cfg.max_time_violations
  /\ days_added = cfg.max_new_days_in_flight

\* the altitude check has just run
AltitudesChecked == pc = "check_fix_rawtime"
Timed(i) == 2 * Abs(fixes[i+1].rawtime - fixes[i].rawtime) > 1
\* intervals over which a sensor changes faster than max_alt_change_rate
IsHuge(sensor(_), i) ==
  /\ Timed(i)
  /\ Abs(sensor(fixes[i+1]) - sensor(fixes[i]))
       > cfg.max_alt_change_rate * Abs(fixes[i+1].rawtime - fixes[i].rawtime)
HugeChanges(sensor(_)) == { i \in 1..(N - 1) : IsHuge(sensor, i) }
\* the sum of the other changes over timed intervals
RECURSIVE ChangeSum(_, _, _)
ChangeSum(sensor(_), lo, hi) ==
  IF lo > hi THEN 0
  ELSE IF lo = hi
    THEN (IF Timed(lo) /\ ~IsHuge(sensor, lo)
            THEN Abs(sensor(fixes[lo+1]) - sensor(fixes[lo])) ELSE 0)
  ELSE ChangeSum(sensor, lo, (lo + hi) \div 2)
       + ChangeSum(sensor, (lo + hi) \div 2 + 1, hi)
\* the fixes, the last one included, outside [min_alt, max_alt]
OutOfEnvelope(sensor(_)) ==
  { i \in 1..N : sensor(fixes[i]) < cfg.min_alt \/ sensor(fixes[i]) > cfg.max_alt }
SensorOk(sensor(_)) ==
  /\ ChangeSum(sensor, 1, N - 1) * cfg.min_avg_abs_alt_change_inv >= N - 1
  /\ Cardinality(HugeChanges(sensor)) <= cfg.max_alt_change_violations
  /\ OutOfEnvelope(sensor) = {}
PressAlt(f) == f.press_alt
GnssAlt(f) == f.gnss_alt

\* C19: after _check_altitudes a sensor is valid exactly when its average
\* change per interval is at least min_avg_abs_alt_change, its huge changes
\* are at most max_alt_change_violations and no fix, the last included, is
\* outside [min_alt, max_alt]; an invalid sensor leaves warnings only and
\* the flight valid.
C19_AltitudeSanity ==
  AltitudesChecked =>
    /\ press_alt_valid <=> SensorOk(PressAlt)
    /\ gnss_alt_valid <=> SensorOk(GnssAlt)
    /\ (~press_alt_valid \/ ~gnss_alt_valid) => notes # << >>
    /\ \A k \in 1..Len(notes) : IsWarning(notes[k])
    /\ valid

\* the fixes labelled not flying that follow a fix labelled flying
Landings == { i \in 2..N : ~flying[i] /\ flying[i - 1] }
FirstFlightDone ==
  Done /\ valid /\ Has("thermals") /\ cfg.which_flight_to_pick = "first"

\* C20: with which_flight_to_pick = "first", takeoff_fix is the first fix
\* labelled flying, landing_fix the first fix labelled not flying after a
\* flying one (the last fix of the log if there is none), and every
\* thermal and glide lies between the two, whatever is flown later.
C20_FirstFlightOnly ==
  FirstFlightDone =>
    /\ takeoff_fix = Least({ i \in 1..N : flying[i] })
    /\ landing_fix = IF Landings = {} THEN N ELSE Least(Landings)
    /\ \A k \in 1..Len(thermals) :
         /\ takeoff_fix <= thermals[k].enter_fix
         /\ thermals[k].exit_fix <= landing_fix
    /\ \A k \in 1..Len(glides) :
         /\ takeoff_fix <= glides[k].enter_fix
         /\ glides[k].exit_fix <= landing_fix

\* the log goes on with a second flight, circling, after the first landing
C20_Witness ==
  /\ FirstFlightDone
  /\ \E i \in (landing_fix + 1)..N : flying[i] /\ circling[i]
  /\ Cardinality(Landings) >= 1

\* the earlier fixes, the first of the log included, that lie more than
\* min_time_for_bearing_change - 1e-7 seconds before fix p
EarlierFixes(p) ==
  { j \in 1..(p - 1) :
      reaches(timestamp[p] - timestamp[j], cfg.min_time_for_bearing_change) }

Greatest(S) == CHOOSE k \in S : \A m \in S : m <= k

\* two rates kept as fractions are the same number
SameRate(a, b) == a.num * b.den = b.num * a.den

\* C21: the rate of fix p is the bearing change over the time change
\* against the latest fix of EarlierFixes(p), the first fix of the log
\* being a candidate, and is the zero of the no-reference branch only when
\* EarlierFixes(p) is empty.
C21_ReferenceFix ==
  \A p \in 1..Len(bearing_change_rate) :
    IF EarlierFixes(p) = {}
      THEN bearing_change_rate[p].num = 0
      ELSE LET j == Greatest(EarlierFixes(p)) IN
             SameRate(bearing_change_rate[p],
                      [ num |-> normalize_bearing_change(bearing[p] - bearing[j]),
                        den |-> timestamp[p] - timestamp[j] ])

\* check_flight has returned its list
Checked == pc = "checked" /\ raised = ""
In(t, i) == in_radius(task.turnpoints[t], fixes[i])
AfterStart(j) == fixes[j].rawtime > task.start_time
StartsWith(kind) ==
  Checked /\ Len(task.turnpoints) >= 1 /\ task.turnpoints[1].kind = kind
\* the fixes outside the start that follow a fix inside it after start_time
ExitStarts ==
  { i \in 1..N : ~In(1, i) /\ \E j \in 1..(i - 1) : AfterStart(j) /\ In(1, j) }
\* the fixes inside the start that follow a fix outside it after start_time
EnterStarts ==
  { i \in 1..N : In(1, i) /\ \E j \in 1..(i - 1) : AfterStart(j) /\ ~In(1, j) }
\* the task has not ended at fix i
InTime(i) == \A k \in 1..i : fixes[k].rawtime <= task.end_time
\* the first credit is the first fix of S, given as soon as the task has
\* not ended there; later credits come after it and none after end_time
CreditedAtFirst(S) ==
  /\ reached_turnpoints # << >> =>
       S # {} /\ reached_turnpoints[1] = Least(S)
  /\ (S # {} /\ InTime(Least(S))) => reached_turnpoints # << >>
  /\ \A k \in 2..Len(reached_turnpoints) :
       reached_turnpoints[k] > reached_turnpoints[1]
  /\ \A k \in 1..Len(reached_turnpoints) :
       fixes[reached_turnpoints[k]].rawtime <= task.end_time

\* C22: a start_exit start is credited at the first fix outside the radius
\* that follows a fix inside it with rawtime > start_time, a start_enter
\* start at the first fix inside that follows a fix outside it with
\* rawtime > start_time; every later turnpoint is credited at a later fix
\* and no credited fix has rawtime > end_time.
C22_StartProtocol ==
  /\ StartsWith("start_exit") => CreditedAtFirst(ExitStarts)
  /\ StartsWith("start_enter") => CreditedAtFirst(EnterStarts)

\* a pilot inside the start at start_time itself and still inside one fix
\* later was credited on leaving at the third fix
C22_Witness ==
  /\ StartsWith("start_exit")
  /\ reached_turnpoints = << 3 >>
  /\ In(1, 1) /\ ~AfterStart(1) /\ In(1, 2)

\* C23: every glide of _find_thermals ends at a later fix than it starts
\* and lasts a positive time, so that Glide.speed() has a divisor other
\* than zero, also when the takeoff fix is circling and when an accepted
\* thermal ends on the last fix of the flight.
C23_GlidesPositive ==
  (Done /\ valid /\ Has("glides")) =>
    \A k \in 1..Len(glides) :
      /\ glides[k].exit_fix > glides[k].enter_fix
      /\ glide_time_change(timestamp, glides[k]) > 0

\* the Flight was built by create_from_file
BuiltFromFile == lines # << >> /\ pc # "create_from_file"

\* C25: every fix kept by create_from_file has its position in Flight.fixes
\* as index, whatever lines were cut short or dropped as duplicates, so the
\* slice of _find_thermals starts at takeoff_fix and ends at landing_fix.
C25_IndexIsPosition ==
  BuiltFromFile =>
    /\ \A i \in 1..N : fixes[i].index = i - 1
    /\ Has("thermals") =>
         /\ flight_fixes_first(fixes, takeoff_fix) = takeoff_fix
         /\ flight_fixes_last(fixes, landing_fix) = landing_fix

\* thermals were searched in a flight read from a file whose second B
\* record repeats the time of the first
C25_Witness ==
  /\ BuiltFromFile /\ Has("thermals")
  /\ Len(ParsedTimes) = 3 /\ ParsedTimes[1] = ParsedTimes[2]
  /\ N = 2 /\ takeoff_fix = 1 /\ landing_fix = 2

\* the H record names a day of the calendar
GivesDate(record) ==
  LET at == hfdte_match(record)
      year == 2000 + int(SubSeq(record, at + 4, at + 5))
      month == int(SubSeq(record, at + 2, at + 3))
      day == int(SubSeq(record, at, at + 1))
  IN /\ Slice(record, 1, 5) = "HFDTE" /\ at # None
     /\ 1 <= month /\ month <= 12
     /\ 1 <= day /\ day <= days_in_month(year, month)
ConstructionEnded == pc \in {"done", "raised"}

\* C26: whatever the digits of the HFDTE records, Flight.__init__ returns
\* without an exception, and where no record names a day of the calendar
\* the flight is invalid with a note that starts with "Error:".
C26_BadDateIsMissingDate ==
  ConstructionEnded =>
    /\ raised = ""
    /\ (\A k \in 1..Len(h_records) : ~GivesDate(h_records[k])) =>
         /\ ~valid
         /\ \E n \in 1..Len(notes) : IsError(notes[n])

\* C24: for a task of turnpoints of the kinds Turnpoint.__init__ accepts,
\* check_flight returns a list of fixes of the flight, never ending in a
\* failed assertion.
C24_EveryKindHandled ==
  (pc = "checked"
     /\ \A t \in 1..Len(task.turnpoints) : task.turnpoints[t].kind \in TurnpointKinds) =>
    /\ raised = ""
    /\ \A k \in 1..Len(reached_turnpoints) : reached_turnpoints[k] \in 1..N
====
